---- MODULE Spec2Model ----
(***************************************************************************)
(* A model of the Nepali stemmer (nepali_stemmer.py) and of the edit       *)
(* distance of its benchmark (benchmark.py).                               *)
(*                                                                         *)
(* A string is a sequence of characters and a character is its Unicode     *)
(* code point, so len(), indexing, slicing, endswith() and == are those of *)
(* Python's str.  A suffix weight is kept in tenths (5.0 is 50, 3.8 is     *)
(* 38), so a score weight * len(suffix) is kept in tenths as well and      *)
(* every comparison of two scores is the comparison the floats give.       *)
(***************************************************************************)
EXTENDS Integers, Sequences, FiniteSets

(* ------------------------------ characters ----------------------------- *)

SPACE == 32
CANDRABINDU == 2305
ANUSVARA == 2306
LETTER_I == 2311
LETTER_II == 2312
LETTER_U == 2313
LETTER_E == 2319
LETTER_O == 2323
LETTER_AU == 2324
KA == 2325
GA == 2327
GHA == 2328
CHA == 2331
TTA == 2335
NNA == 2339
TA == 2340
THA == 2341
DA == 2342
NA == 2344
PA == 2346
BA == 2348
BHA == 2349
MA == 2350
YA == 2351
RA == 2352
LA == 2354
VA == 2357
SA == 2360
HA == 2361
NUKTA == 2364
SIGN_AA == 2366
SIGN_I == 2367
SIGN_II == 2368
SIGN_U == 2369
SIGN_UU == 2370
SIGN_E == 2375
SIGN_AI == 2376
SIGN_O == 2379
VIRAMA == 2381

\* The characters str.strip() removes: those str.isspace() is true of.
Whitespace ==
    { 9, 10, 11, 12, 13, 28, 29, 30, 31, SPACE, 133, 160, 5760, 8232, 8233,
      8239, 8287, 12288 } \cup (8192 .. 8202)

(* ------------------------------- the tables ---------------------------- *)

\* __init__: the shortest stem validate_stem accepts.
min_stem_length == 2

\* __init__: 0.4, in tenths.
edit_distance_threshold == 4

\* Each table is the dict literal in its insertion order: <<suffix, weight>>.
case_markers ==
    << <<<<HA, RA, SIGN_UU, LA, SIGN_AA, LETTER_II>>, 50>>,
       <<<<HA, RA, SIGN_UU, KA, SIGN_O>>, 50>>,
       <<<<HA, RA, SIGN_UU, MA, SIGN_AA>>, 50>>,
       <<<<HA, RA, SIGN_UU, BA, SIGN_AA, TTA>>, 50>>,
       <<<<HA, RA, SIGN_UU, SA, CANDRABINDU, GA>>, 50>>,
       <<<<LA, SIGN_AA, LETTER_II>>, 40>>,
       <<<<KA, SIGN_O>>, 40>>,
       <<<<MA, SIGN_AA>>, 40>>,
       <<<<BA, SIGN_AA, TTA>>, 40>>,
       <<<<SA, CANDRABINDU, GA>>, 40>>,
       <<<<DA, VIRAMA, VA, SIGN_AA, RA, SIGN_AA>>, 40>>,
       <<<<KA, SIGN_AA>>, 35>>,
       <<<<KA, SIGN_II>>, 35>>,
       <<<<LA, SIGN_E>>, 35>> >>

plural_markers ==
    << <<<<HA, RA, SIGN_UU>>, 45>>,
       <<<<HA, RA, SIGN_U>>, 45>> >>

verbal_suffixes ==
    << <<<<LETTER_E, KA, SIGN_AA>>, 40>>,
       <<<<LETTER_E, KA, SIGN_O>>, 40>>,
       <<<<LETTER_E, KA, SIGN_II>>, 40>>,
       <<<<LETTER_I, LETTER_E, KA, SIGN_O>>, 38>>,
       <<<<DA, SIGN_AI, CHA>>, 35>>,
       <<<<DA, SIGN_AI, CHA, NA, VIRAMA>>, 35>>,
       <<<<DA, CHA>>, 35>>,
       <<<<DA, CHA, NA, VIRAMA>>, 35>>,
       <<<<YA, SIGN_O>>, 35>>,
       <<<<THA, SIGN_I, YA, SIGN_O>>, 35>>,
       <<<<THA, SIGN_I, LETTER_E>>, 35>>,
       <<<<NA, VIRAMA, CHA>>, 30>>,
       <<<<NA, VIRAMA, CHA, NA, VIRAMA>>, 30>>,
       <<<<NA, SIGN_E>>, 30>>,
       <<<<NA, SIGN_U>>, 30>>,
       <<<<LA, SIGN_AA>>, 30>>,
       <<<<LETTER_U>>, 25>>,
       <<<<CHA>>, 25>>,
       <<<<CHA, NA, VIRAMA>>, 25>>,
       <<<<CHA, SIGN_U>>, 25>>,
       <<<<LETTER_AU, ANUSVARA>>, 25>>,
       <<<<LETTER_O>>, 25>> >>

adjectival_suffixes ==
    << <<<<LETTER_I, LA, SIGN_O>>, 30>>,
       <<<<LETTER_I, LA, SIGN_II>>, 30>>,
       <<<<LETTER_I, LA, SIGN_AA>>, 30>>,
       <<<<PA, SIGN_UU, RA, VIRAMA, NNA>>, 25>>,
       <<<<HA, SIGN_II, NA>>, 25>> >>

nominal_suffixes ==
    << <<<<PA, NA>>, 30>>,
       <<<<PA, NA, SIGN_AA>>, 30>>,
       <<<<TA, SIGN_AA>>, 25>>,
       <<<<TA, VIRAMA, VA>>, 25>>,
       <<<<LETTER_I, KA>>, 25>>,
       <<<<VA, SIGN_AA, LA, SIGN_AA>>, 25>>,
       <<<<DA, SIGN_AA, RA>>, 25>> >>

\* load_stopwords: the set literal.
stopwords ==
    { <<CHA>>,
      <<CHA, NA, VIRAMA>>,
      <<HA, SIGN_O>>,
      <<HA, SIGN_O, LETTER_I, NA>>,
      <<HA, SIGN_U, NA, VIRAMA>>,
      <<THA, SIGN_I, YA, SIGN_O>>,
      <<THA, SIGN_I, LETTER_E>>,
      <<RA>>,
      <<VA, SIGN_AA>>,
      <<TA, RA>>,
      <<PA, NA, SIGN_I>>,
      <<NA, SIGN_I>>,
      <<TA>>,
      <<BHA, NA, SIGN_E>>,
      <<KA, SIGN_O>>,
      <<KA, SIGN_AA>>,
      <<KA, SIGN_II>>,
      <<LA, SIGN_E>>,
      <<LA, SIGN_AA, LETTER_II>>,
      <<MA, SIGN_AA>>,
      <<BA, SIGN_AA, TTA>>,
      <<YA, SIGN_O>>,
      <<YA, SIGN_II>>,
      <<TA, VIRAMA, YA, SIGN_O>>,
      <<TA, SIGN_II>>,
      <<LETTER_U>>,
      <<LETTER_U, NA, SIGN_II>>,
      <<MA>>,
      <<HA, SIGN_AA, MA, SIGN_II>>,
      <<TA, SIGN_I, MA, SIGN_II>>,
      <<TA, PA, SIGN_AA, LETTER_II, ANUSVARA>>,
      <<LETTER_U, NA, SIGN_II, HA, RA, SIGN_UU>> }

(* ------------------------------ str helpers ---------------------------- *)

\* s[:k]
Take(s, k) == SubSeq(s, 1, k)

\* s[k:]
Drop(s, k) == SubSeq(s, k + 1, Len(s))

\* min(a, b, c)
Min3(a, b, c) ==
    IF a <= b /\ a <= c THEN a ELSE IF b <= c THEN b ELSE c

\* str.endswith
endswith(word, suffix) ==
    /\ Len(suffix) <= Len(word)
    /\ Drop(word, Len(word) - Len(suffix)) = suffix

RECURSIVE lstrip(_)
\* The leading whitespace removed.
lstrip(s) ==
    IF s # << >> /\ Head(s) \in Whitespace THEN lstrip(Tail(s)) ELSE s

RECURSIVE rstrip(_)
\* The trailing whitespace removed.
rstrip(s) ==
    IF s # << >> /\ s[Len(s)] \in Whitespace
    THEN rstrip(Take(s, Len(s) - 1))
    ELSE s

\* str.strip()
strip(s) == rstrip(lstrip(s))

\* str.replace(old, ''), old one character
remove_char(s, old) == SelectSeq(s, LAMBDA c : c # old)

(* ------------------------------- normalize ----------------------------- *)

\* normalize: strip the word, then delete every nukta.
normalize(word) == remove_char(strip(word), NUKTA)

(* ----------------------------- edit distance -------------------------- *)

RECURSIVE dp_row(_, _, _, _, _)
\* calculate_edit_distance, the inner loop: row i of dp, filled from column 1
\* on.  cur holds dp[i][0 .. j-1] for the next column j = Len(cur), and prev
\* holds dp[i-1]; column c of a row is element c + 1 of its sequence.
dp_row(s1, s2, i, prev, cur) ==
    IF Len(cur) > Len(s2)
    THEN cur
    ELSE dp_row(s1, s2, i, prev,
                Append(cur,
                       IF s1[i] = s2[Len(cur)]
                       THEN prev[Len(cur)]
                       ELSE 1 + Min3(prev[Len(cur) + 1], cur[Len(cur)],
                                     prev[Len(cur)])))

RECURSIVE dp_rows(_, _, _)
\* calculate_edit_distance, the outer loop: the rows 0 .. i of dp, row r
\* being element r + 1.  Row 0 is dp[0][j] = j and every other row starts
\* with dp[i][0] = i.
dp_rows(s1, s2, i) ==
    IF i = 0
    THEN << [c \in 1 .. Len(s2) + 1 |-> c - 1] >>
    ELSE LET dp == dp_rows(s1, s2, i - 1)
         IN  Append(dp, dp_row(s1, s2, i, dp[i], << i >>))

\* calculate_edit_distance: the result is dp[m][n].
calculate_edit_distance(s1, s2) ==
    dp_rows(s1, s2, Len(s1))[Len(s1) + 1][Len(s2) + 1]

\* A substitution that always costs 1, equal characters or not.
substitution_cost_always(c1, c2) == 1

\* benchmark.levenshtein_distance: (c1 != c2) as a number.
substitution_cost(c1, c2) == IF c1 # c2 THEN 1 ELSE 0

RECURSIVE current_row(_, _, _, _)
\* benchmark.levenshtein_distance, the inner loop for the character c1 of
\* s1: cur is current_row so far, c2 is character Len(cur) of s2 (counted
\* from 1), prev is previous_row.
current_row(c1, s2, prev, cur) ==
    IF Len(cur) > Len(s2)
    THEN cur
    ELSE LET insertions    == prev[Len(cur) + 1] + 1
             deletions     == cur[Len(cur)] + 1
             substitutions == prev[Len(cur)]
                                  + substitution_cost(c1, s2[Len(cur)])
         IN  current_row(c1, s2, prev,
                         Append(cur,
                                Min3(insertions, deletions, substitutions)))

RECURSIVE previous_row(_, _, _)
\* benchmark.levenshtein_distance, the outer loop: previous_row after the
\* first i characters of s1, range(len(s2) + 1) before any.  The row of
\* character i (counted from 1) starts as [i].
previous_row(s1, s2, i) ==
    IF i = 0
    THEN [c \in 1 .. Len(s2) + 1 |-> c - 1]
    ELSE current_row(s1[i], s2, previous_row(s1, s2, i - 1), << i >>)

RECURSIVE levenshtein_distance(_, _)
\* benchmark.levenshtein_distance: the longer string first, an empty s2
\* answered at once, else the last element of the last row.
levenshtein_distance(s1, s2) ==
    IF Len(s1) < Len(s2)
    THEN levenshtein_distance(s2, s1)
    ELSE IF Len(s2) = 0
         THEN Len(s1)
         ELSE previous_row(s1, s2, Len(s1))[Len(s2) + 1]

(* ------------------------------ validate_stem -------------------------- *)

\* validate_stem: the three rejections, in the code's order.
\* int(len(original) * 0.4) is the floor of len(original) * 4 / 10, and
\* len(stem) < len(original) * 0.3 is 10 * len(stem) < 3 * len(original).
validate_stem(original, stem) ==
    IF Len(stem) < min_stem_length
    THEN FALSE
    ELSE IF calculate_edit_distance(original, stem)
              > (Len(original) * edit_distance_threshold) \div 10
         THEN FALSE
         ELSE IF 10 * Len(stem) < 3 * Len(original)
              THEN FALSE
              ELSE TRUE

(* ------------------------- get_all_suffixes_sorted --------------------- *)

\* all_suffixes[suffix] = weight on a dict kept as the sequence of its items
\* in insertion order: a key already there keeps its place.
dict_set(items, suffix, weight) ==
    IF \E i \in DOMAIN items : items[i][1] = suffix
    THEN [ i \in DOMAIN items |->
             IF items[i][1] = suffix THEN <<suffix, weight>> ELSE items[i] ]
    ELSE Append(items, <<suffix, weight>>)

RECURSIVE dict_update(_, _, _)
\* One of the five loops of get_all_suffixes_sorted, after the first n items
\* of the table.
dict_update(items, table, n) ==
    IF n = 0
    THEN items
    ELSE dict_set(dict_update(items, table, n - 1), table[n][1], table[n][2])

\* all_suffixes after the five loops.
all_suffixes ==
    LET merged(items, table) == dict_update(items, table, Len(table))
    IN  merged(merged(merged(merged(merged(<< >>, case_markers),
                                    plural_markers),
                             verbal_suffixes),
                      adjectival_suffixes),
               nominal_suffixes)

\* The sort key: x[1] * len(x[0]), in tenths.
priority(item) == item[2] * Len(item[1])

\* Whether item i of items comes before item j in sorted(items, key=priority,
\* reverse=reverse): by the key, and by the place in items when the keys are
\* equal (the sort is stable, reversed or not).
comes_before(items, i, j, reverse) ==
    \/ IF reverse
       THEN priority(items[i]) > priority(items[j])
       ELSE priority(items[i]) < priority(items[j])
    \/ priority(items[i]) = priority(items[j]) /\ i < j

\* sorted(items, key=priority, reverse=reverse): the item at place p is the
\* one that p - 1 items come before.
sorted(items, reverse) ==
    [ p \in 1 .. Len(items) |->
        items[CHOOSE i \in 1 .. Len(items) :
                  Cardinality({ j \in 1 .. Len(items) :
                                    comes_before(items, j, i, reverse) })
                      = p - 1] ]

\* The sort with reverse=True left out.
get_all_suffixes_ascending == sorted(all_suffixes, FALSE)

\* The sort left out altogether.
get_all_suffixes_unsorted == all_suffixes

\* get_all_suffixes_sorted: the merged table by descending priority.
get_all_suffixes_sorted == sorted(all_suffixes, TRUE)

(* ----------------------- strip_suffix, sandhi rules -------------------- *)

\* A slice that keeps one character of the suffix.
strip_suffix_keep_one(word, suffix) ==
    IF endswith(word, suffix)
    THEN Take(word, Len(word) - Len(suffix) + 1)
    ELSE word

\* strip_suffix: word[:-len(suffix)] when the word ends with the suffix.
strip_suffix(word, suffix) ==
    IF endswith(word, suffix)
    THEN Take(word, Len(word) - Len(suffix))
    ELSE word

\* The list the last character is looked up in: three strings of three
\* characters each.
geminate_exceptions ==
    { <<TA, VIRAMA, TA>>, <<DA, VIRAMA, DA>>, <<NA, VIRAMA, NA>> }

\* The exception taken when the doubled character is one of the consonants
\* of the exception clusters.
apply_sandhi_rules_keep_consonant(stem) ==
    IF Len(stem) >= 2 /\ stem[Len(stem)] = stem[Len(stem) - 1]
    THEN IF stem[Len(stem)] \notin { c[1] : c \in geminate_exceptions }
         THEN Take(stem, Len(stem) - 1)
         ELSE stem
    ELSE stem

\* A rule that restores a geminate cluster instead of reducing one.
apply_sandhi_rules_restore(stem) ==
    IF Len(stem) >= 1
    THEN stem \o << VIRAMA, stem[Len(stem)] >>
    ELSE stem

\* apply_sandhi_rules: stem[-1] is a string of one character.
apply_sandhi_rules(stem) ==
    IF Len(stem) >= 2 /\ stem[Len(stem)] = stem[Len(stem) - 1]
    THEN IF << stem[Len(stem)] >> \notin geminate_exceptions
         THEN Take(stem, Len(stem) - 1)
         ELSE stem
    ELSE stem

(* ------------------------------ stem, tests ---------------------------- *)

\* The test of stem left strict below 2 characters only.
is_very_short_below_two(word) == Len(word) < 2

\* stem: len(word) <= 2
is_very_short(word) == Len(word) <= 2

\* The stopword test left out.
in_stopwords_never(word) == FALSE

\* stem: word in self.stopwords
in_stopwords(word) == word \in stopwords

(* -------------------------------- bounds ------------------------------- *)

\* The longest string over ProbeChars given to normalize and to stem.
MaxProbeLen == 3

\* The longest run of BaseChars a suffixed input has before its suffix.
MaxBaseLen == 4

\* The longest suffixed input.
MaxWordLen == 8

\* The longest string given to the two edit distances.
MaxDistLen == 3

\* The longest string given to apply_sandhi_rules directly.
MaxSandhiLen == 3

(* -------------------------------- inputs ------------------------------- *)

\* Every sequence over S of length at most n.
SeqsUpTo(S, n) == UNION { [1 .. k -> S] : k \in 0 .. n }

\* Whitespace, the nukta, a letter, and a letter that is a suffix and a
\* stopword.
ProbeChars == { SPACE, NUKTA, GHA, CHA }

ProbeInputs == SeqsUpTo(ProbeChars, MaxProbeLen)

BaseChars == { GHA, RA }

\* The runs of base characters, and the stem of the first test words of
\* main().
Bases ==
    SeqsUpTo(BaseChars, MaxBaseLen) \cup { <<KA, SIGN_I, TA, SIGN_AA, BA>> }

\* The suffixes of the rule table, and none.
SuffixTexts == { << >> } \cup { all_suffixes[i][1] : i \in DOMAIN all_suffixes }

\* A base and a suffix.
SuffixedInputs ==
    { w \in { b \o s : b \in Bases, s \in SuffixTexts } : Len(w) <= MaxWordLen }

StemInputs == ProbeInputs \cup stopwords \cup SuffixedInputs

DistChars == { GHA, RA }

DistInputs == SeqsUpTo(DistChars, MaxDistLen)

SandhiChars == { GHA, TA, VIRAMA }

SandhiInputs == SeqsUpTo(SandhiChars, MaxSandhiLen)

(* ------------------------------ the machine ---------------------------- *)

VARIABLES
    op,                 \* the call in progress, "none" between calls
    pc,                 \* "idle", "scan" (in the loop of stem), "done"
    original_word,      \* the argument of the call (s1 of a distance call)
    other_word,         \* s2 of a distance call
    apply_validation,   \* stem's flag
    word,               \* stem: the normalized word
    sorted_suffixes,    \* stem: sorted_suffixes
    idx,                \* stem: the place in sorted_suffixes, from 1
    best_stem,          \* stem: best_stem
    best_score,         \* stem: best_score, in tenths
    assignments,        \* stem: how often (best_stem, best_score) was replaced
    result              \* the value returned

vars ==
    << op, pc, original_word, other_word, apply_validation, word,
       sorted_suffixes, idx, best_stem, best_score, assignments, result >>

\* The value of a variable the call in progress does not use.
NoValue == << >>

Init ==
    /\ op = "none"
    /\ pc = "idle"
    /\ original_word = NoValue
    /\ other_word = NoValue
    /\ apply_validation = FALSE
    /\ word = NoValue
    /\ sorted_suffixes = NoValue
    /\ idx = 0
    /\ best_stem = NoValue
    /\ best_score = 0
    /\ assignments = 0
    /\ result = NoValue

\* stem, lines 230-236: a normalized word of at most two characters is
\* returned as it is.
StemShort ==
    /\ pc = "idle"
    /\ \E w \in StemInputs, av \in BOOLEAN :
           /\ is_very_short(normalize(w))
           /\ op' = "stem"
           /\ pc' = "done"
           /\ original_word' = w
           /\ apply_validation' = av
           /\ word' = normalize(w)
           /\ result' = normalize(w)
           /\ UNCHANGED << other_word, sorted_suffixes, idx, best_stem, best_score, assignments >>

\* stem, lines 238-240: a stopword is returned as it is.
StemStopword ==
    /\ pc = "idle"
    /\ \E w \in StemInputs, av \in BOOLEAN :
           /\ ~ is_very_short(normalize(w))
           /\ in_stopwords(normalize(w))
           /\ op' = "stem"
           /\ pc' = "done"
           /\ original_word' = w
           /\ apply_validation' = av
           /\ word' = normalize(w)
           /\ result' = normalize(w)
           /\ UNCHANGED << other_word, sorted_suffixes, idx, best_stem, best_score, assignments >>

\* stem, lines 242-247: the loop is entered with best_stem = word and
\* best_score = 0.
StemStart ==
    /\ pc = "idle"
    /\ \E w \in StemInputs, av \in BOOLEAN :
           /\ ~ is_very_short(normalize(w))
           /\ ~ in_stopwords(normalize(w))
           /\ op' = "stem"
           /\ pc' = "scan"
           /\ original_word' = w
           /\ apply_validation' = av
           /\ word' = normalize(w)
           /\ sorted_suffixes' = get_all_suffixes_sorted
           /\ idx' = 1
           /\ best_stem' = normalize(w)
           /\ best_score' = 0
           /\ assignments' = 0
           /\ UNCHANGED << other_word, result >>

\* stem, line 250: the word does not end with this suffix.
ScanSkip ==
    /\ pc = "scan"
    /\ idx <= Len(sorted_suffixes)
    /\ ~ endswith(word, sorted_suffixes[idx][1])
    /\ idx' = idx + 1
    /\ UNCHANGED << op, pc, original_word, other_word, apply_validation, word, sorted_suffixes,
                    best_stem, best_score, assignments, result >>

\* stem, lines 250-263: a matching suffix with validation on.
ScanValidated ==
    /\ pc = "scan"
    /\ idx <= Len(sorted_suffixes)
    /\ apply_validation
    /\ LET suffix == sorted_suffixes[idx][1]
           weight == sorted_suffixes[idx][2]
           potential_stem == apply_sandhi_rules(strip_suffix(word, suffix))
           score == weight * Len(suffix)
       IN  /\ endswith(word, suffix)
           /\ IF validate_stem(word, potential_stem) /\ score > best_score
              THEN /\ best_stem' = potential_stem
                   /\ best_score' = score
                   /\ assignments' = assignments + 1
              ELSE UNCHANGED << best_stem, best_score, assignments >>
    /\ idx' = idx + 1
    /\ UNCHANGED << op, pc, original_word, other_word, apply_validation, word, sorted_suffixes,
                    result >>

\* stem, lines 250-254 and 264-266: without validation the first match is
\* returned.
ScanUnvalidated ==
    /\ pc = "scan"
    /\ idx <= Len(sorted_suffixes)
    /\ ~ apply_validation
    /\ LET suffix == sorted_suffixes[idx][1]
       IN  /\ endswith(word, suffix)
           /\ result' = apply_sandhi_rules(strip_suffix(word, suffix))
    /\ pc' = "done"
    /\ UNCHANGED << op, original_word, other_word, apply_validation, word, sorted_suffixes, idx,
                    best_stem, best_score, assignments >>

\* stem, lines 268-272: the loop is over.
ScanEnd ==
    /\ pc = "scan"
    /\ idx > Len(sorted_suffixes)
    /\ result' = IF best_stem = word THEN word ELSE best_stem
    /\ pc' = "done"
    /\ UNCHANGED << op, original_word, other_word, apply_validation, word, sorted_suffixes, idx,
                    best_stem, best_score, assignments >>

\* normalize, called on its own.
NormalizeCall ==
    /\ pc = "idle"
    /\ \E w \in ProbeInputs :
           /\ op' = "normalize"
           /\ pc' = "done"
           /\ original_word' = w
           /\ result' = normalize(w)
           /\ UNCHANGED << other_word, apply_validation, word, sorted_suffixes, idx, best_stem,
                           best_score, assignments >>

\* apply_sandhi_rules, called on its own.
SandhiCall ==
    /\ pc = "idle"
    /\ \E s \in SandhiInputs :
           /\ op' = "apply_sandhi_rules"
           /\ pc' = "done"
           /\ original_word' = s
           /\ result' = apply_sandhi_rules(s)
           /\ UNCHANGED << other_word, apply_validation, word, sorted_suffixes, idx, best_stem,
                           best_score, assignments >>

\* The two edit distances, called on the same pair of strings.
DistanceCall ==
    /\ pc = "idle"
    /\ \E s1 \in DistInputs, s2 \in DistInputs :
           /\ op' = "distance"
           /\ pc' = "done"
           /\ original_word' = s1
           /\ other_word' = s2
           /\ result' = [ stemmer   |-> calculate_edit_distance(s1, s2),
                          benchmark |-> levenshtein_distance(s1, s2) ]
           /\ UNCHANGED << apply_validation, word, sorted_suffixes, idx, best_stem, best_score,
                           assignments >>

\* The call has returned; the engine keeps nothing of it.
Return ==
    /\ pc = "done"
    /\ op' = "none"
    /\ pc' = "idle"
    /\ original_word' = NoValue
    /\ other_word' = NoValue
    /\ apply_validation' = FALSE
    /\ word' = NoValue
    /\ sorted_suffixes' = NoValue
    /\ idx' = 0
    /\ best_stem' = NoValue
    /\ best_score' = 0
    /\ assignments' = 0
    /\ result' = NoValue

Next ==
    \/ StemShort
    \/ StemStopword
    \/ StemStart
    \/ ScanSkip
    \/ ScanValidated
    \/ ScanUnvalidated
    \/ ScanEnd
    \/ NormalizeCall
    \/ SandhiCall
    \/ DistanceCall
    \/ Return

Spec == Init /\ [][Next]_vars

(* ------------------------------- the claims ---------------------------- *)

\* A call of stem has returned.
StemDone == op = "stem" /\ pc = "done"

\* The word ends with the suffix at place i of the merged table.
Matches(w, i) ==
    \E k \in 0 .. Len(w) : Take(w, k) \o all_suffixes[i][1] = w

\* What is left of the word in front of the suffix at place i, corrected by
\* the sandhi rule.
Candidate(w, i) ==
    apply_sandhi_rules(Take(w, Len(w) - Len(all_suffixes[i][1])))

\* weight * length of the suffix at place i, in tenths.
Score(i) == all_suffixes[i][2] * Len(all_suffixes[i][1])

\* The place in I that comes first in priority order: the greatest score,
\* and the earliest insertion among equal scores.
FirstByPriority(I) ==
    CHOOSE i \in I :
        \A k \in I : Score(k) < Score(i) \/ (Score(k) = Score(i) /\ i <= k)

MatchingPlaces(w) == { i \in DOMAIN all_suffixes : Matches(w, i) }

ValidPlaces(w) ==
    { i \in MatchingPlaces(w) : validate_stem(w, Candidate(w, i)) }

\* The call went past the two early returns.
Stemmable(w) == Len(normalize(w)) > 2 /\ normalize(w) \notin stopwords

\* C1: for a word whose normalized form is longer than 2 characters and is
\* no stopword, stem with validation returns the sandhi-corrected candidate
\* of the matching suffix that passes validate_stem and has the greatest
\* weight * length (the earliest in priority order among equal scores), and
\* the normalized word when no matching suffix has a valid candidate.
C1_ValidatedStemIsBestValidCandidate ==
    (StemDone /\ apply_validation /\ Stemmable(original_word))
        => LET w == normalize(original_word)
           IN  result = IF ValidPlaces(w) = {}
                        THEN w
                        ELSE Candidate(w, FirstByPriority(ValidPlaces(w)))

\* C1, its case: a suffix of greater score matches and is rejected, and the
\* candidate of a later suffix is returned.
C1_Witness ==
    /\ StemDone /\ apply_validation /\ Stemmable(original_word)
    /\ ValidPlaces(word) # {}
    /\ \E i \in MatchingPlaces(word) \ ValidPlaces(word) :
           Score(i) > Score(FirstByPriority(ValidPlaces(word)))
    /\ result = Candidate(word, FirstByPriority(ValidPlaces(word)))
    /\ result # word

\* C2: stem("gha ra ka o") with validation on returns "gha ra", the case
\* marker "ka o" removed.
C2_GharakoStemsToGhar ==
    (StemDone /\ apply_validation /\ original_word = <<GHA, RA, KA, SIGN_O>>)
        => result = <<GHA, RA>>

\* C3: stem returns every stopword as it is, with validation or without,
\* also a stopword that is a suffix of the rule table.
C3_StopwordsUnchanged ==
    (StemDone /\ original_word \in stopwords) => result = original_word

\* C3, its case: a stopword of more than two characters that is a suffix of
\* the rule table, stemmed without validation.
C3_Witness ==
    /\ StemDone /\ ~ apply_validation
    /\ original_word = <<THA, SIGN_I, YA, SIGN_O>>
    /\ original_word \in stopwords
    /\ \E i \in DOMAIN all_suffixes : all_suffixes[i][1] = original_word
    /\ result = original_word

\* C4 as claimed: stem returns every word of at most 2 characters as it
\* is, whitespace and the nukta included.
C4_ShortWordIdentity ==
    (StemDone /\ Len(original_word) <= 2) => result = original_word

\* C4 as amended: for a word of at most 2 characters stem returns the
\* normalized word, which is the word itself when it has no whitespace at
\* either end and no nukta.
C4_ShortWordNormalized ==
    (StemDone /\ Len(original_word) <= 2)
        => /\ result = normalize(original_word)
           /\ (/\ \A k \in DOMAIN original_word : original_word[k] # NUKTA
               /\ original_word = << >>
                    \/ (/\ Head(original_word) \notin Whitespace
                        /\ original_word[Len(original_word)] \notin Whitespace))
                  => result = original_word

\* C4, its case: a word of 2 characters that normalization shortens.
C4_Witness ==
    /\ StemDone
    /\ Len(original_word) = 2
    /\ Len(result) = 1
    /\ result = normalize(original_word)

\* C5: the result of stem is never longer than its input.
C5_NonExpansion == StemDone => Len(result) <= Len(original_word)

\* C5, its case: a suffix was stripped and the sandhi rule then dropped a
\* doubled character.
C5_Witness ==
    /\ StemDone /\ Stemmable(original_word)
    /\ \E i \in MatchingPlaces(word) :
           /\ result = Candidate(word, i)
           /\ Len(result) + Len(all_suffixes[i][1]) + 1 = Len(word)
    /\ Len(result) < Len(original_word)

\* C6: normalize is idempotent: normalize(normalize(w)) = normalize(w).
C6_NormalizeIdempotent ==
    (op = "normalize" /\ pc = "done") => normalize(result) = result

\* C7: for a word whose normalized form is longer than 2 characters and is
\* no stopword, stem without validation returns the sandhi-corrected
\* candidate of the first suffix in priority order the normalized word ends
\* with, unvalidated, and the normalized word when no suffix matches.
C7_UnvalidatedStemIsFirstMatch ==
    (StemDone /\ ~ apply_validation /\ Stemmable(original_word))
        => LET w == normalize(original_word)
           IN  result = IF MatchingPlaces(w) = {}
                        THEN w
                        ELSE Candidate(w, FirstByPriority(MatchingPlaces(w)))

\* C7, its case: several suffixes match and the result is shorter than the
\* shortest stem validate_stem accepts.
C7_Witness ==
    /\ StemDone /\ ~ apply_validation /\ Stemmable(original_word)
    /\ Cardinality(MatchingPlaces(word)) >= 2
    /\ Len(result) < min_stem_length
    /\ result = Candidate(word, FirstByPriority(MatchingPlaces(word)))

RECURSIVE Levenshtein(_, _)
\* The Levenshtein distance by its recurrence, from the ends of the strings.
Levenshtein(a, b) ==
    IF a = << >>
    THEN Len(b)
    ELSE IF b = << >>
         THEN Len(a)
         ELSE IF a[Len(a)] = b[Len(b)]
              THEN Levenshtein(Take(a, Len(a) - 1), Take(b, Len(b) - 1))
              ELSE 1 + Min3(Levenshtein(Take(a, Len(a) - 1), b),
                            Levenshtein(a, Take(b, Len(b) - 1)),
                            Levenshtein(Take(a, Len(a) - 1),
                                        Take(b, Len(b) - 1)))

\* C8: levenshtein_distance of the benchmark and calculate_edit_distance of
\* the stemmer return the same value, the Levenshtein distance, also for an
\* empty string and for a first string shorter than the second.
C8_DistancesAgree ==
    (op = "distance" /\ pc = "done")
        => /\ result.benchmark = result.stemmer
           /\ result.stemmer = Levenshtein(original_word, other_word)

\* C8, its case: the benchmark swaps its arguments, and the distance is more
\* than the difference of the lengths.
C8_Witness ==
    /\ op = "distance" /\ pc = "done"
    /\ 0 < Len(original_word) /\ Len(original_word) < Len(other_word)
    /\ result.benchmark > Len(other_word) - Len(original_word)
    /\ result.benchmark = result.stemmer

\* C9: apply_sandhi_rules drops exactly the last character of a stem whose
\* last two characters are identical, whatever the character, and returns
\* every other stem as it is.
C9_SandhiDropsOneDoubledCharacter ==
    (op = "apply_sandhi_rules" /\ pc = "done")
        => LET stem == original_word
           IN  result = IF /\ Len(stem) >= 2
                           /\ stem[Len(stem)] = stem[Len(stem) - 1]
                        THEN Take(stem, Len(stem) - 1)
                        ELSE stem

\* C9, its case: a consonant of the exception list, tripled: one character
\* is dropped and the rest still ends in a doubled character.
C9_Witness ==
    /\ op = "apply_sandhi_rules" /\ pc = "done"
    /\ original_word = <<TA, TA, TA>>
    /\ result = <<TA, TA>>

\* The places of sorted_suffixes, in the order of the scan, whose suffix the
\* word ends with and whose candidate passes validate_stem.
ScanValidPlaces ==
    { i \in DOMAIN sorted_suffixes :
          /\ endswith(word, sorted_suffixes[i][1])
          /\ validate_stem(word,
                 apply_sandhi_rules(strip_suffix(word, sorted_suffixes[i][1]))) }

\* C10: in a call of stem with validation (best_stem, best_score) is
\* assigned at most once, and the result is the candidate of the first
\* matching and valid suffix of the scan.
C10_BestAssignedAtMostOnce ==
    /\ assignments <= 1
    /\ (StemDone /\ apply_validation /\ Stemmable(original_word)
            /\ ScanValidPlaces # {})
           => LET first == CHOOSE i \in ScanValidPlaces :
                               \A k \in ScanValidPlaces : i <= k
              IN  /\ assignments = 1
                  /\ result = apply_sandhi_rules(
                                  strip_suffix(word, sorted_suffixes[first][1]))

\* C10, its case: two suffixes match and are valid, and the second did not
\* replace the first.
C10_Witness ==
    /\ StemDone /\ apply_validation /\ Stemmable(original_word)
    /\ Cardinality(ScanValidPlaces) >= 2
    /\ assignments = 1

====
